---- MODULE Spec2Model ----
(***************************************************************************)
(* AddRuntimeAssertionsForConstraintsPass                                  *)
(* (torch/_export/passes/add_runtime_assertions_for_constraints_pass.py)   *)
(*                                                                         *)
(* The pass reads the export metadata of a graph module (input shape       *)
(* constraints, example inputs, inline constraints), normalises the shape  *)
(* constraints and re-emits the graph with runtime assertion nodes.        *)
(* The rewritten graph is the sequence `graph' of emitted nodes; a node is *)
(* referred to by its position in that sequence.                           *)
(***************************************************************************)
EXTENDS Integers, Sequences, FiniteSets, TLC

VARIABLES
    placeholders,                  \* graph module: names of the placeholder nodes, in declaration order
    call_functions,                \* graph module: meta of the call_function nodes, in topological order
    input_shape_constraints,       \* export meta: ordered records name -> {"range": [...], "equality": [...]}
    input_name_to_example_inputs,  \* export meta: name -> concrete example shape
    inline_constraints,            \* export meta: symbol -> (lower, upper)
    constraints,                   \* self.constraints: name -> list of ConstraintSpec
    input_name_to_args,            \* self.input_name_to_args: ordered (name, placeholder node)
    graph,                         \* nodes emitted into the rewritten graph, in emission order
    rets,                          \* result node of every call_function processed so far
    branch,                        \* branch postprocess_placeholders took for each input it reached
    node_i,                        \* position of the interpreter in the current node list
    pc,                            \* stage of the pass: "call" | "placeholders" | "operators" | "done"
    err                            \* exception that aborted the pass in stage pc ("" if none)

vars == << placeholders, call_functions, input_shape_constraints,
           input_name_to_example_inputs, inline_constraints, constraints,
           input_name_to_args, graph, rets, branch, node_i, pc, err >>

meta == << placeholders, call_functions, input_shape_constraints,
           input_name_to_example_inputs, inline_constraints >>

(***************************************************************************)
(* Bounds of the model                                                     *)
(***************************************************************************)
MaxRank == 2       \* largest rank of an example input or of an operator's result
MaxTuples == 3     \* most raw range (or equality) tuples declared for one input

(***************************************************************************)
(* Values                                                                  *)
(***************************************************************************)
\* math.inf: above every integer bound used
Inf == 1000000

\* sympy values handed in as bounds: an Integer, sympy.oo, or another expression
SymInteger(n) == [k |-> "int", v |-> n]
SymOo == [k |-> "oo", v |-> 0]
SymExpr == [k |-> "expr", v |-> 0]

\* operands of an emitted node
NodeArg(i) == [k |-> "node", v |-> i]
IntArg(n) == [k |-> "int", v |-> n]
NoArg == [k |-> "none", v |-> 0]

\* assertion messages, by their format string
NoMsg == [kind |-> "none", name |-> "", node |-> 0, dim |-> 0, lo |-> 0, hi |-> 0,
          other |-> "", odim |-> 0]
SpecializedMsg(name, dim, size) ==
    [NoMsg EXCEPT !.kind = "specialized", !.name = name, !.dim = dim, !.lo = size]
RangeMsg(name, dim, min_val, max_val) ==
    [NoMsg EXCEPT !.kind = "range", !.name = name, !.dim = dim, !.lo = min_val, !.hi = max_val]
EqualityMsg(name, dim, other_name, other_dim) ==
    [NoMsg EXCEPT !.kind = "equality", !.name = name, !.dim = dim,
                  !.other = other_name, !.odim = other_dim]

\* a node of the rewritten graph
Node(op, target, a, b, msg) == [op |-> op, target |-> target, a |-> a, b |-> b, msg |-> msg]

RangeConstraintSpec(constraint_dim, min_val, max_val) ==
    [kind |-> "range", constraint_dim |-> constraint_dim, min_val |-> min_val,
     max_val |-> max_val, other_name |-> "", other_dim |-> 0]
EqualityConstraintSpec(constraint_dim, other_name, other_dim) ==
    [kind |-> "equality", constraint_dim |-> constraint_dim, min_val |-> 0,
     max_val |-> 0, other_name |-> other_name, other_dim |-> other_dim]

(***************************************************************************)
(* Python helpers                                                          *)
(***************************************************************************)
Range(f) == {f[i] : i \in DOMAIN f}

\* position of the first occurrence of each distinct key, i.e. the insertion
\* order of a dict filled by d[key].append(...)
RECURSIVE KeyOrder(_)
KeyOrder(keys) ==
    IF keys = <<>> THEN <<>>
    ELSE LET init == KeyOrder(SubSeq(keys, 1, Len(keys) - 1))
             last == keys[Len(keys)]
         IN IF last \in Range(init) THEN init ELSE Append(init, last)

RECURSIVE InsertSorted(_, _)
InsertSorted(s, x) ==
    IF s = <<>> THEN <<x>>
    ELSE IF x < Head(s) THEN <<x>> \o s
    ELSE <<Head(s)>> \o InsertSorted(Tail(s), x)

RECURSIVE SortAscending(_)
SortAscending(s) ==
    IF s = <<>> THEN <<>> ELSE InsertSorted(SortAscending(Tail(s)), Head(s))

Reversed(s) == [i \in 1..Len(s) |-> s[Len(s) + 1 - i]]

sorted(s, reverse) == IF reverse THEN Reversed(SortAscending(s)) ELSE SortAscending(s)

(***************************************************************************)
(* _convert_to_int                                                         *)
(***************************************************************************)
_convert_to_int_raises(val) == val.k # "oo" /\ val.k # "int"

_convert_to_int(val) == IF val.k = "oo" THEN Inf ELSE val.v

(***************************************************************************)
(* _process_shape_constraints                                              *)
(***************************************************************************)
\* first loop: some bound of some range tuple is not convertible
RangeBoundRaises(raw) ==
    \E i \in DOMAIN raw : \E j \in DOMAIN raw[i].range :
        \/ _convert_to_int_raises(raw[i].range[j][2])
        \/ _convert_to_int_raises(raw[i].range[j][3])

\* input_name_to_dim_constraints[name]["range"][dim]
RangeTuplesOf(rec, dim) ==
    LET ts == SelectSeq(rec.range, LAMBDA t : t[1] = dim)
    IN [i \in 1..Len(ts) |-> << _convert_to_int(ts[i][2]), _convert_to_int(ts[i][3]) >>]

\* the equalities of one dimension merged into the first one, as ranges are
EqualityTuplesOfMerged(rec, dim) ==
    SubSeq(SelectSeq(rec.equality, LAMBDA t : t[1] = dim), 1, 1)

EqualityTuplesOf(rec, dim) == SelectSeq(rec.equality, LAMBDA t : t[1] = dim)

RangeDims(rec) == KeyOrder([i \in 1..Len(rec.range) |-> rec.range[i][1]])
\* the dimensions in ascending order instead of the order of first occurrence
EqualityDimsAscending(rec) ==
    SortAscending(KeyOrder([i \in 1..Len(rec.equality) |-> rec.equality[i][1]]))

EqualityDims(rec) == KeyOrder([i \in 1..Len(rec.equality) |-> rec.equality[i][1]])

\* the lower bounds sorted the wrong way round
MergedMinAscending(range_constraints) ==
    sorted([i \in 1..Len(range_constraints) |-> range_constraints[i][1]], FALSE)[1]

MergedMin(range_constraints) ==
    sorted([i \in 1..Len(range_constraints) |-> range_constraints[i][1]], TRUE)[1]

MergedMax(range_constraints) ==
    sorted([i \in 1..Len(range_constraints) |-> range_constraints[i][2]], FALSE)[1]

\* the assertion left out
MergeAssertionSkipped(min_val, max_val) == TRUE

\* assert min_val <= max_val
MergeAssertion(min_val, max_val) == min_val <= max_val

MergeAssertionFails(raw) ==
    \E i \in DOMAIN raw : \E d \in Range(RangeDims(raw[i])) :
        ~MergeAssertion(MergedMin(RangeTuplesOf(raw[i], d)), MergedMax(RangeTuplesOf(raw[i], d)))

RangeSpecsOf(rec) ==
    LET dims == RangeDims(rec)
    IN [i \in 1..Len(dims) |->
          RangeConstraintSpec(dims[i], MergedMin(RangeTuplesOf(rec, dims[i])),
                              MergedMax(RangeTuplesOf(rec, dims[i])))]

RECURSIVE EqualitySpecsFor(_, _)
EqualitySpecsFor(rec, dims) ==
    IF dims = <<>> THEN <<>>
    ELSE LET eqs == EqualityTuplesOf(rec, Head(dims))
         IN [i \in 1..Len(eqs) |-> EqualityConstraintSpec(Head(dims), eqs[i][2], eqs[i][3])]
            \o EqualitySpecsFor(rec, Tail(dims))

EqualitySpecsOf(rec) == EqualitySpecsFor(rec, EqualityDims(rec))

\* names that received an entry in input_name_to_dim_constraints
ConstrainedNames(raw) ==
    {raw[i].name : i \in {j \in DOMAIN raw : raw[j].range # <<>> \/ raw[j].equality # <<>>}}

RecordOf(raw, name) == raw[CHOOSE i \in DOMAIN raw : raw[i].name = name]

_process_shape_constraints(raw) ==
    IF RangeBoundRaises(raw) THEN [err |-> "RuntimeError", table |-> <<>>]
    ELSE IF MergeAssertionFails(raw) THEN [err |-> "AssertionError", table |-> <<>>]
    ELSE [err |-> "",
          table |-> [name \in ConstrainedNames(raw) |->
                        RangeSpecsOf(RecordOf(raw, name)) \o EqualitySpecsOf(RecordOf(raw, name))]]

(***************************************************************************)
(* Emission of assertion nodes                                             *)
(***************************************************************************)
\* super().call_operator(torch.ops.aten.sym_size, (arg, dim), ...)
SymSizeNode(arg, dim) == Node("sym_size", "", NodeArg(arg), IntArg(dim), NoMsg)

\* range(n)
range(n) == [i \in 1..n |-> i - 1]

RECURSIVE _insert_specialized_shapes_assert(_, _, _, _, _)
_insert_specialized_shapes_assert(g, arg, dims, name, current_inp) ==
    IF dims = <<>> THEN g
    ELSE LET dim == Head(dims)
             n == Len(g)
             assert_msg == SpecializedMsg(name, dim, current_inp[dim + 1])
             g1 == g \o << SymSizeNode(arg, dim),
                           Node("eq", "", NodeArg(n + 1), IntArg(current_inp[dim + 1]), NoMsg),
                           Node("scalar_tensor", "", NodeArg(n + 2), NoArg, NoMsg),
                           Node("assert", "", NodeArg(n + 3), NoArg, assert_msg) >>
         IN _insert_specialized_shapes_assert(g1, arg, Tail(dims), name, current_inp)

\* the assert taking the comparison itself, without the scalar_tensor conversion
_insert_assert_async_unconverted(g, operator, l, r, assert_msg) ==
    LET n == Len(g)
    IN g \o << Node(operator, "", l, r, NoMsg),
               Node("assert", "", NodeArg(n + 1), NoArg, assert_msg) >>

_insert_assert_async(g, operator, l, r, assert_msg) ==
    LET n == Len(g)
    IN g \o << Node(operator, "", l, r, NoMsg),
               Node("scalar_tensor", "", NodeArg(n + 1), NoArg, NoMsg),
               Node("assert", "", NodeArg(n + 2), NoArg, assert_msg) >>

\* the threshold compared with >= instead of >
ChecksLowerInclusive(lower, low_threshold) == lower >= low_threshold

\* if lower > low_threshold
ChecksLower(lower, low_threshold) == lower > low_threshold

\* if upper < math.inf
ChecksUpper(upper) == upper < Inf

_assert_range_constraint(g, proxy, lower, upper, assert_msg, low_threshold) ==
    LET g1 == IF ChecksLower(lower, low_threshold)
              THEN _insert_assert_async(g, "ge", proxy, IntArg(lower), assert_msg)
              ELSE g
    IN IF ChecksUpper(upper)
       THEN _insert_assert_async(g1, "le", proxy, IntArg(upper), assert_msg)
       ELSE g1

_assert_equality_constraint(g, proxy1, proxy2, assert_msg) ==
    _insert_assert_async(g, "eq", proxy1, proxy2, assert_msg)

(***************************************************************************)
(* postprocess_placeholders                                                *)
(***************************************************************************)
\* low_threshold=2 passed for the range constraints of an input
InputLowThreshold == 2

ArgNames(args) == {args[i].name : i \in DOMAIN args}
ArgOf(args, name) == args[CHOOSE i \in DOMAIN args : args[i].name = name].arg

\* an equality constraint asserted on the spot instead of being deferred
HandleConstraintEager(st, arg, name, constraint) ==
    LET dim == Len(st.g) + 1
        g1 == Append(st.g, SymSizeNode(arg, constraint.constraint_dim))
        cd == st.constrained_dims \cup {constraint.constraint_dim}
    IN IF constraint.kind = "range"
       THEN [st EXCEPT !.constrained_dims = cd,
                       !.g = _assert_range_constraint(
                                 g1, NodeArg(dim), constraint.min_val, constraint.max_val,
                                 RangeMsg(name, constraint.constraint_dim, constraint.min_val,
                                          constraint.max_val), 2)]
       ELSE IF constraint.other_name \notin ArgNames(input_name_to_args)
       THEN [st EXCEPT !.constrained_dims = cd, !.g = g1]
       ELSE [st EXCEPT !.constrained_dims = cd,
                       !.g = _assert_equality_constraint(
                                 Append(g1, SymSizeNode(ArgOf(input_name_to_args,
                                                              constraint.other_name),
                                                        constraint.other_dim)),
                                 NodeArg(dim), NodeArg(dim + 1),
                                 EqualityMsg(name, constraint.constraint_dim,
                                             constraint.other_name, constraint.other_dim))]

\* body of `for constraint in constraints`; st = [g, eqs, constrained_dims]
HandleConstraint(st, arg, name, constraint) ==
    LET dim == Len(st.g) + 1
        g1 == Append(st.g, SymSizeNode(arg, constraint.constraint_dim))
        assert_msg == RangeMsg(name, constraint.constraint_dim,
                               constraint.min_val, constraint.max_val)
        cd == st.constrained_dims \cup {constraint.constraint_dim}
    IN IF constraint.kind = "range"
       THEN [st EXCEPT !.constrained_dims = cd,
                       !.g = _assert_range_constraint(g1, NodeArg(dim), constraint.min_val,
                                                      constraint.max_val, assert_msg,
                                                      InputLowThreshold)]
       ELSE [st EXCEPT !.constrained_dims = cd,
                       !.g = g1,
                       !.eqs = Append(@, [constraint |-> constraint, name |-> name, dim |-> dim])]

RECURSIVE ConstraintLoop(_, _, _, _)
ConstraintLoop(st, arg, name, cs) ==
    IF cs = <<>> THEN st
    ELSE ConstraintLoop(HandleConstraint(st, arg, name, Head(cs)), arg, name, Tail(cs))

\* the loop going on to the next input after an unconstrained one
RECURSIVE InputLoopContinue(_, _, _, _)
InputLoopContinue(st, args, examples, table) ==
    IF args = <<>> THEN st
    ELSE LET name == Head(args).name
             arg == Head(args).arg
             current_inp == examples[name]
             all_dims == range(Len(current_inp))
         IN IF name \notin DOMAIN table
            THEN InputLoopContinue(
                     [st EXCEPT !.g = _insert_specialized_shapes_assert(st.g, arg, all_dims, name,
                                                                        current_inp),
                                !.branch = Append(@, [name |-> name, branch |-> "all_dims"])],
                     Tail(args), examples, table)
            ELSE LET st1 == ConstraintLoop([g |-> st.g, eqs |-> st.eqs, constrained_dims |-> {}],
                                           arg, name, table[name])
                     specialized_dims ==
                         SelectSeq(all_dims, LAMBDA d : d \notin st1.constrained_dims)
                     g2 == _insert_specialized_shapes_assert(st1.g, arg, specialized_dims, name,
                                                             current_inp)
                 IN InputLoopContinue([st EXCEPT !.g = g2, !.eqs = st1.eqs,
                                                 !.branch = Append(@, [name |-> name,
                                                                       branch |-> "per_dim"])],
                                      Tail(args), examples, table)

\* `for name, arg in self.input_name_to_args.items()`;
\* st = [g, eqs, returned, branch], branch: the branch taken for each input reached
RECURSIVE InputLoop(_, _, _, _)
InputLoop(st, args, examples, table) ==
    IF args = <<>> \/ st.returned THEN st
    ELSE LET name == Head(args).name
             arg == Head(args).arg
             current_inp == examples[name]
             all_dims == range(Len(current_inp))
         IN IF name \notin DOMAIN table
            THEN \* specialise every dimension, then `return arg`
                 [st EXCEPT !.g = _insert_specialized_shapes_assert(st.g, arg, all_dims, name,
                                                                    current_inp),
                            !.returned = TRUE,
                            !.branch = Append(@, [name |-> name, branch |-> "all_dims"])]
            ELSE LET st1 == ConstraintLoop([g |-> st.g, eqs |-> st.eqs, constrained_dims |-> {}],
                                           arg, name, table[name])
                     specialized_dims ==
                         SelectSeq(all_dims, LAMBDA d : d \notin st1.constrained_dims)
                     g2 == _insert_specialized_shapes_assert(st1.g, arg, specialized_dims, name,
                                                             current_inp)
                 IN InputLoop([st EXCEPT !.g = g2, !.eqs = st1.eqs,
                                         !.branch = Append(@, [name |-> name,
                                                               branch |-> "per_dim"])],
                              Tail(args), examples, table)

\* an equality whose other input is not in the table passed over
RECURSIVE EqualityLoopSkipping(_, _, _)
EqualityLoopSkipping(st, eqs, args) ==
    IF eqs = <<>> THEN st
    ELSE LET e == Head(eqs)
         IN IF e.constraint.other_name \notin ArgNames(args)
            THEN EqualityLoopSkipping(st, Tail(eqs), args)
            ELSE LET other_arg == ArgOf(args, e.constraint.other_name)
                     other_dim == Len(st.g) + 1
                     g1 == Append(st.g, SymSizeNode(other_arg, e.constraint.other_dim))
                     assert_msg == EqualityMsg(e.name, e.constraint.constraint_dim,
                                               e.constraint.other_name, e.constraint.other_dim)
                     g2 == _assert_equality_constraint(g1, NodeArg(e.dim), NodeArg(other_dim),
                                                       assert_msg)
                 IN EqualityLoopSkipping([st EXCEPT !.g = g2], Tail(eqs), args)

\* `for constraint, name, dim in equality_constraints`; st = [g, err]
RECURSIVE EqualityLoop(_, _, _)
EqualityLoop(st, eqs, args) ==
    IF eqs = <<>> THEN st
    ELSE LET e == Head(eqs)
         IN IF e.constraint.other_name \notin ArgNames(args)
            THEN [st EXCEPT !.err = "KeyError"]
            ELSE LET other_arg == ArgOf(args, e.constraint.other_name)
                     other_dim == Len(st.g) + 1
                     g1 == Append(st.g, SymSizeNode(other_arg, e.constraint.other_dim))
                     assert_msg == EqualityMsg(e.name, e.constraint.constraint_dim,
                                               e.constraint.other_name, e.constraint.other_dim)
                     g2 == _assert_equality_constraint(g1, NodeArg(e.dim), NodeArg(other_dim),
                                                       assert_msg)
                 IN EqualityLoop([st EXCEPT !.g = g2], Tail(eqs), args)

postprocess_placeholders(g, args, examples, table) ==
    LET st == InputLoop([g |-> g, eqs |-> <<>>, returned |-> FALSE, branch |-> <<>>],
                        args, examples, table)
    IN IF st.returned
       THEN [g |-> st.g, err |-> "", branch |-> st.branch]
       ELSE LET r == EqualityLoop([g |-> st.g, err |-> ""], st.eqs, args)
            IN [g |-> r.g, err |-> r.err, branch |-> st.branch]

(***************************************************************************)
(* call_operator                                                           *)
(***************************************************************************)
\* low_threshold=-1 bound into the callback of an inline constraint
InlineLowThreshold == -1

\* methods defined by AddRuntimeAssertionsForConstraintsPass
ClassMethods ==
    {"__init__", "_process_shape_constraints", "call", "_insert_specialized_shapes_assert",
     "placeholder", "postprocess_placeholders", "_assert_range_constraint",
     "_assert_equality_constraint", "_insert_assert_async", "call_operator"}

\* value descriptors found in meta["val"]
NoVal == [kind |-> "none", expr |-> "", shape |-> <<>>]
PlainVal == [kind |-> "int", expr |-> "", shape |-> <<>>]
SymIntVal(expr) == [kind |-> "symint", expr |-> expr, shape |-> <<>>]
TensorVal(shape) == [kind |-> "tensor", expr |-> "", shape |-> shape]
\* result of a multi-output operation: a tuple of descriptors
TupleVal(elems) == [kind |-> "tuple", expr |-> "", shape |-> <<>>, elems |-> elems]

InlineMsg(node, path, lower, upper) ==
    [NoMsg EXCEPT !.kind = "inline", !.node = node,
                  !.dim = IF path = <<>> THEN -1 ELSE path[1], !.lo = lower, !.hi = upper]

\* add_assertions on a SymInt/SymFloat/SymBool: [err, call_backs, messages]
AddAssertionsSym(val, inline) ==
    IF val.expr \notin DOMAIN inline
    THEN [err |-> "", call_backs |-> <<>>, messages |-> <<>>]
    ELSE LET constraint == inline[val.expr]
         IN IF _convert_to_int_raises(constraint.lower) \/ _convert_to_int_raises(constraint.upper)
            THEN [err |-> "RuntimeError", call_backs |-> <<>>, messages |-> <<>>]
            ELSE IF "_assert_constraint" \notin ClassMethods
            THEN \* partial(self._assert_constraint, ...): no such attribute
                 [err |-> "AttributeError", call_backs |-> <<>>, messages |-> <<>>]
            ELSE LET lower == _convert_to_int(constraint.lower)
                     upper == _convert_to_int(constraint.upper)
                 IN [err |-> "",
                     call_backs |-> << [path |-> <<>>, lower |-> lower, upper |-> upper] >>,
                     messages |-> << [path |-> <<>>, lower |-> lower, upper |-> upper] >>]

\* `for i, sym in enumerate(val.shape)`; acc = [err, call_backs, messages, cb]
\* where cb is the loop variable `cb` of this frame, which every sym_size_cb reads
\* when it is fired
RECURSIVE ShapeLoop(_, _, _, _)
ShapeLoop(acc, shape, i, inline) ==
    IF i >= Len(shape) \/ acc.err # "" THEN acc
    ELSE LET sym == shape[i + 1]
             r == IF sym.kind = "symint" THEN AddAssertionsSym(sym, inline)
                  ELSE [err |-> "", call_backs |-> <<>>, messages |-> <<>>]
             wrapped == [j \in 1..Len(r.call_backs) |-> [path |-> <<i>>, lower |-> 0, upper |-> 0]]
             msgs == [j \in 1..Len(r.messages) |-> [r.messages[j] EXCEPT !.path = <<i>> \o @]]
         IN ShapeLoop([err |-> r.err,
                       call_backs |-> acc.call_backs \o wrapped,
                       messages |-> acc.messages \o msgs,
                       cb |-> IF r.call_backs = <<>> THEN acc.cb
                              ELSE << r.call_backs[Len(r.call_backs)] >>],
                      shape, i + 1, inline)

add_assertions(val, inline) ==
    IF val.kind = "symint"
    THEN AddAssertionsSym(val, inline) @@ [cb |-> <<>>]
    ELSE IF val.kind = "tensor"
    THEN ShapeLoop([err |-> "", call_backs |-> <<>>, messages |-> <<>>, cb |-> <<>>],
                   val.shape, 0, inline)
    ELSE [err |-> "", call_backs |-> <<>>, messages |-> <<>>, cb |-> <<>>]

\* `for cb, msg in zip(callbacks, messages): cb(proxy=ret, assert_msg=...)`
RECURSIVE FireCallbacks(_, _, _, _, _)
FireCallbacks(g, ret, call_backs, messages, cb) ==
    IF call_backs = <<>> \/ messages = <<>> THEN g
    ELSE LET c == Head(call_backs)
             m == Head(messages)
             assert_msg == InlineMsg(ret, m.path, m.lower, m.upper)
             g1 == IF c.path = <<>>
                   THEN _assert_range_constraint(g, NodeArg(ret), c.lower, c.upper, assert_msg,
                                                 InlineLowThreshold)
                   ELSE \* sym_size_cb: size-read, then the frame's current `cb`
                        _assert_range_constraint(Append(g, SymSizeNode(ret, c.path[1])),
                                                 NodeArg(Len(g) + 1), cb[1].lower, cb[1].upper,
                                                 assert_msg, InlineLowThreshold)
         IN FireCallbacks(g1, ret, Tail(call_backs), Tail(messages), cb)

\* the size-read of every dimension emitted while the descriptor is classified,
\* before any symbol is looked up
call_operator_eager(g, target, val, inline) ==
    LET ret == Len(g) + 1
        reads == [i \in 1..Len(val.shape) |-> SymSizeNode(ret, i - 1)]
        g1 == <<Node("call", target, NoArg, NoArg, NoMsg)>> \o reads
    IN IF val.kind = "none" THEN [g |-> g \o g1, ret |-> ret, err |-> ""]
       ELSE LET r == add_assertions(val, inline)
            IN IF r.err # "" THEN [g |-> g \o g1, ret |-> ret, err |-> r.err]
               ELSE [g |-> FireCallbacks(g \o g1, ret, r.call_backs, r.messages, r.cb),
                     ret |-> ret, err |-> ""]

\* [g, ret, err]
call_operator(g, target, val, inline) ==
    LET ret == Len(g) + 1
        g1 == Append(g, Node("call", target, NoArg, NoArg, NoMsg))
    IN IF val.kind = "none" THEN [g |-> g1, ret |-> ret, err |-> ""]
       ELSE LET r == add_assertions(val, inline)
            IN IF r.err # "" THEN [g |-> g1, ret |-> ret, err |-> r.err]
               ELSE [g |-> FireCallbacks(g1, ret, r.call_backs, r.messages, r.cb),
                     ret |-> ret, err |-> ""]

(***************************************************************************)
(* The pass                                                                *)
(***************************************************************************)
\* call(): normalise the constraints, load the tables, start the traversal
Call ==
    /\ pc = "call"
    /\ err = ""
    /\ LET r == _process_shape_constraints(input_shape_constraints)
       IN IF r.err # ""
          THEN /\ err' = r.err
               /\ UNCHANGED << pc, constraints >>
          ELSE /\ pc' = "placeholders"
               /\ constraints' = r.table
               /\ UNCHANGED err
    /\ input_name_to_args' = <<>>
    /\ UNCHANGED << meta, graph, rets, branch, node_i >>

\* placeholder(): one input node
Placeholder ==
    /\ pc = "placeholders"
    /\ err = ""
    /\ node_i <= Len(placeholders)
    /\ LET name == placeholders[node_i]
           arg == Len(graph) + 1
       IN /\ graph' = Append(graph, Node("placeholder", name, NoArg, NoArg, NoMsg))
          /\ input_name_to_args' =
                IF name \notin DOMAIN input_name_to_example_inputs
                THEN input_name_to_args
                ELSE Append(input_name_to_args, [name |-> name, arg |-> arg])
    /\ node_i' = node_i + 1
    /\ UNCHANGED << meta, constraints, rets, branch, pc, err >>

\* postprocess_placeholders(), once every input node has been visited
PostprocessPlaceholders ==
    /\ pc = "placeholders"
    /\ err = ""
    /\ node_i > Len(placeholders)
    /\ LET r == postprocess_placeholders(graph, input_name_to_args,
                                         input_name_to_example_inputs, constraints)
       IN /\ graph' = r.g
          /\ branch' = r.branch
          /\ err' = r.err
          /\ pc' = IF r.err # "" THEN pc ELSE "operators"
          /\ node_i' = IF r.err # "" THEN node_i ELSE 1
    /\ UNCHANGED << meta, constraints, input_name_to_args, rets >>

\* call_operator(): one call_function node
CallOperator ==
    /\ pc = "operators"
    /\ err = ""
    /\ node_i <= Len(call_functions)
    /\ LET r == call_operator(graph, call_functions[node_i].target, call_functions[node_i].val,
                              inline_constraints)
       IN /\ graph' = r.g
          /\ rets' = Append(rets, r.ret)
          /\ err' = r.err
          /\ node_i' = IF r.err # "" THEN node_i ELSE node_i + 1
    /\ pc' = pc
    /\ UNCHANGED << meta, constraints, input_name_to_args, branch >>

\* the traversal reaches the end of the graph: the pass returns its result
Return ==
    /\ pc = "operators"
    /\ err = ""
    /\ node_i > Len(call_functions)
    /\ pc' = "done"
    /\ UNCHANGED << meta, constraints, input_name_to_args, graph, rets, branch, node_i, err >>

Next == Call \/ Placeholder \/ PostprocessPlaceholders \/ CallOperator \/ Return

(***************************************************************************)
(* Graph modules and export metadata the pass is run on                    *)
(***************************************************************************)
SeqsUpTo(S, n) == UNION {[1..k -> S] : k \in 0..n}

\* example shape of rank r: x is (3, 4, ...), y is (5, 6, ...)
ExampleShape(name, r) == [d \in 1..r |-> (IF name = "x" THEN 3 ELSE 5) + d - 1]

\* example table for ranks rx, ry; rank 0 stands for "no example input"
ExampleTable(rx, ry) ==
    [name \in {n \in {"x", "y"} : (IF n = "x" THEN rx ELSE ry) > 0} |->
        ExampleShape(name, IF name = "x" THEN rx ELSE ry)]

DimsOf(r) == 0..(IF r = 0 THEN 0 ELSE r - 1)

ShapeRecord(name, range_list, equality_list) ==
    [name |-> name, range |-> range_list, equality |-> equality_list]

PlainOp == [target |-> "op1", val |-> NoVal]

\* Inputs x and y in either order, with or without example inputs, each with at
\* most one range tuple and at most one equality tuple ("z" names no input).
InputRangeLists(r) ==
    {<<>>} \cup {<< <<d, SymInteger(3), SymInteger(10)>> >> : d \in DimsOf(r)}

InputEqualityLists(r) ==
    {<<>>} \cup {<< <<d, o, 0>> >> : d \in DimsOf(r), o \in {"x", "y", "z"}}

InitInputs ==
    \E ph \in {<<"x">>, <<"x", "y">>, <<"y", "x">>}, rx \in 0..MaxRank, ry \in 0..MaxRank :
    \E xr \in InputRangeLists(rx), xe \in InputEqualityLists(rx),
       yr \in InputRangeLists(ry), ye \in InputEqualityLists(ry) :
        /\ placeholders = ph
        /\ call_functions = <<PlainOp>>
        /\ input_shape_constraints = << ShapeRecord("x", xr, xe), ShapeRecord("y", yr, ye) >>
        /\ input_name_to_example_inputs = ExampleTable(rx, ry)
        /\ inline_constraints = <<>>

\* One input with several raw range tuples, among them overlapping, disjoint,
\* unbounded and non-integer ones.
BoundPairs ==
    { <<SymInteger(2), SymInteger(8)>>, <<SymInteger(5), SymInteger(10)>>,
      <<SymInteger(3), SymOo>>, <<SymInteger(2), SymInteger(4)>>,
      <<SymInteger(2), SymOo>>, <<SymExpr, SymInteger(8)>> }

RangeTuples == {<<d, b[1], b[2]>> : d \in 0..(MaxRank - 1), b \in BoundPairs}

InitRanges ==
    \E rl \in SeqsUpTo(RangeTuples, MaxTuples) :
        /\ placeholders = <<"x">>
        /\ call_functions = <<PlainOp>>
        /\ input_shape_constraints = << ShapeRecord("x", rl, <<>>) >>
        /\ input_name_to_example_inputs = ExampleTable(MaxRank, 0)
        /\ inline_constraints = <<>>

\* One input and one or two operators whose results carry symbols s0, s1,
\* with inline constraints on none, one or both of the symbols; a result is a
\* scalar, a tensor, or the pair of tensors of a multi-output operator.
Symbols == {"s0", "s1"}

InlineBounds ==
    { [lower |-> SymInteger(1), upper |-> SymInteger(10)],
      [lower |-> SymInteger(0), upper |-> SymOo],
      [lower |-> SymInteger(-1), upper |-> SymInteger(10)],
      [lower |-> SymExpr, upper |-> SymInteger(10)] }

InlineTables == UNION {[D -> InlineBounds] : D \in SUBSET Symbols}

DimVals == {PlainVal} \cup {SymIntVal(e) : e \in Symbols}

OpVals ==
    {NoVal, PlainVal, SymIntVal("s0"),
     TupleVal(<< TensorVal(<<PlainVal>>), TensorVal(<<SymIntVal("s0")>>) >>)}
        \cup {TensorVal(shape) : shape \in UNION {[1..k -> DimVals] : k \in 1..MaxRank}}

OpLists ==
    {<< [target |-> "op1", val |-> v] >> : v \in OpVals}
        \cup {<< [target |-> "op1", val |-> v], [target |-> "op2", val |-> w] >> :
                v \in OpVals, w \in {NoVal, SymIntVal("s1")}}

InitOperators ==
    \E ops \in OpLists, tbl \in InlineTables, xr \in InputRangeLists(1) :
        /\ placeholders = <<"x">>
        /\ call_functions = ops
        /\ input_shape_constraints = << ShapeRecord("x", xr, <<>>) >>
        /\ input_name_to_example_inputs = ExampleTable(1, 0)
        /\ inline_constraints = tbl

\* Inputs x and y of rank MaxRank in either declaration order; x declares
\* several equalities with dimensions of y, in any order of its own dimensions,
\* and y one range constraint.
EqualityTuples == {<<d, "y", e>> : d \in 0..(MaxRank - 1), e \in 0..(MaxRank - 1)}

InitEqualities ==
    \E ph \in {<<"x", "y">>, <<"y", "x">>}, el \in SeqsUpTo(EqualityTuples, MaxTuples) :
        /\ placeholders = ph
        /\ call_functions = <<PlainOp>>
        /\ input_shape_constraints =
              << ShapeRecord("x", <<>>, el),
                 ShapeRecord("y", << <<0, SymInteger(3), SymInteger(10)>> >>, <<>>) >>
        /\ input_name_to_example_inputs = ExampleTable(MaxRank, MaxRank)
        /\ inline_constraints = <<>>

Init ==
    /\ InitInputs \/ InitRanges \/ InitOperators \/ InitEqualities
    /\ constraints = <<>>
    /\ input_name_to_args = <<>>
    /\ graph = <<>>
    /\ rets = <<>>
    /\ branch = <<>>
    /\ node_i = 1
    /\ pc = "call"
    /\ err = ""

Spec == Init /\ [][Next]_vars

(***************************************************************************)
(* The pass run again on the graph it has rewritten                        *)
(***************************************************************************)
\* operators of the nodes the pass inserts
InsertedOps == {"sym_size", "ge", "le", "eq", "scalar_tensor", "assert"}

\* every node carries a descriptor
DescriptorOfComputed(n) ==
    IF graph[n].op = "call"
    THEN call_functions[CHOOSE i \in DOMAIN rets : rets[i] = n].val
    ELSE IF graph[n].op = "sym_size" THEN SymIntVal("s0")
    ELSE PlainVal

\* meta the node n of the rewritten graph was created with: the meta of the
\* original operation, or NodeMetadata({}) for an inserted node
DescriptorOf(n) ==
    IF graph[n].op = "call"
    THEN call_functions[CHOOSE i \in DOMAIN rets : rets[i] = n].val
    ELSE NoVal

\* call_function nodes of the rewritten graph, in graph order
RewrittenOperators ==
    LET nodes == SelectSeq([n \in DOMAIN graph |-> n], LAMBDA n : graph[n].op # "placeholder")
    IN [k \in DOMAIN nodes |->
           [target |-> IF graph[nodes[k]].op = "call" THEN graph[nodes[k]].target
                       ELSE graph[nodes[k]].op,
            val |-> DescriptorOf(nodes[k])]]

\* none of the operators the pass is running on was inserted by the pass
FirstRun == \A k \in DOMAIN call_functions : call_functions[k].target \notin InsertedOps

\* a fresh pass is run once on the result of a completed first run, with the
\* same export metadata
Rerun ==
    /\ pc = "done"
    /\ FirstRun
    /\ call_functions' = RewrittenOperators
    /\ constraints' = <<>>
    /\ input_name_to_args' = <<>>
    /\ graph' = <<>>
    /\ rets' = <<>>
    /\ branch' = <<>>
    /\ node_i' = 1
    /\ pc' = "call"
    /\ UNCHANGED << placeholders, input_shape_constraints, input_name_to_example_inputs,
                    inline_constraints, err >>

NextRerun == Next \/ Rerun

\* the runs on a rewritten graph are followed for the graph modules whose
\* operators carry descriptors
InitRerun ==
    /\ InitOperators
    /\ constraints = <<>>
    /\ input_name_to_args = <<>>
    /\ graph = <<>>
    /\ rets = <<>>
    /\ branch = <<>>
    /\ node_i = 1
    /\ pc = "call"
    /\ err = ""

SpecRerun == InitRerun /\ [][NextRerun]_vars

(***************************************************************************)
(* Reading the rewritten graph                                             *)
(***************************************************************************)
Aborted == err # ""

\* the pass has returned or raised: no step is left
Ended == pc = "done" \/ Aborted

\* declared inputs that have an example shape
DeclaredInputs == Range(placeholders) \cap DOMAIN input_name_to_example_inputs

Rank(name) == Len(input_name_to_example_inputs[name])

\* operand a is the result of a size-read of dimension dim of input name
ReadsSizeOf(a, name, dim) ==
    /\ a.k = "node"
    /\ graph[a.v].op = "sym_size"
    /\ graph[a.v].b = IntArg(dim)
    /\ graph[graph[a.v].a.v].op = "placeholder"
    /\ graph[graph[a.v].a.v].target = name

Asserts == {i \in DOMAIN graph : graph[i].op = "assert"}

\* the comparison an assert node checks (through the scalar_tensor conversion)
ComparisonOf(i) == graph[graph[graph[i].a.v].a.v]

\* asserts comparing size(name, dim) with a constant
SpecializationAsserts(name, dim) ==
    {i \in Asserts : /\ ComparisonOf(i).op = "eq"
                     /\ ReadsSizeOf(ComparisonOf(i).a, name, dim)
                     /\ ComparisonOf(i).b.k = "int"}

\* asserts comparing size(name, dim) with size(other_name, other_dim)
EqualityAsserts(name, dim, other_name, other_dim) ==
    {i \in Asserts : /\ ComparisonOf(i).op = "eq"
                     /\ ReadsSizeOf(ComparisonOf(i).a, name, dim)
                     /\ ReadsSizeOf(ComparisonOf(i).b, other_name, other_dim)}

\* specialization and range asserts of the inputs
InputLevelAsserts == {i \in Asserts : graph[i].msg.kind \in {"specialized", "range"}}

\* dimensions of input name covered by a range or equality constraint
CoveredDims(name) ==
    IF name \in DOMAIN constraints
    THEN {constraints[name][j].constraint_dim : j \in DOMAIN constraints[name]}
    ELSE {}

\* C1: for every declared equality constraint (A, d) == (B, e) between two
\* declared inputs with example shapes, a completed pass has emitted exactly
\* one assert comparing size(A, d) with size(B, e), and it comes after every
\* input-level range and specialization assert.
C1_EqualityAssertEmitted ==
    pc = "done" =>
        \A r \in DOMAIN input_shape_constraints :
        \A j \in DOMAIN input_shape_constraints[r].equality :
            LET A == input_shape_constraints[r].name
                t == input_shape_constraints[r].equality[j]
            IN (A \in DeclaredInputs /\ t[2] \in DeclaredInputs) =>
                  /\ Cardinality(EqualityAsserts(A, t[1], t[2], t[3])) = 1
                  /\ \A e \in EqualityAsserts(A, t[1], t[2], t[3]) :
                        \A i \in InputLevelAsserts : i < e

\* C2: after input processing, every declared input with at least one
\* canonical constraint has exactly one specialization assert, against the
\* example size, on each dimension no constraint covers, and none on a
\* covered dimension.
C2_UncoveredDimsSpecialized ==
    pc \in {"operators", "done"} =>
        \A name \in DeclaredInputs \cap DOMAIN constraints :
        \A d \in 0..(Rank(name) - 1) :
            IF d \in CoveredDims(name)
            THEN SpecializationAsserts(name, d) = {}
            ELSE /\ Cardinality(SpecializationAsserts(name, d)) = 1
                 /\ \A i \in SpecializationAsserts(name, d) :
                        ComparisonOf(i).b = IntArg(input_name_to_example_inputs[name][d + 1])

\* C3: every declared input without canonical constraints has exactly one
\* specialization assert per dimension, against the example size.
C3_UnconstrainedSpecialized ==
    pc \in {"operators", "done"} =>
        \A name \in DeclaredInputs \ DOMAIN constraints :
        \A d \in 0..(Rank(name) - 1) :
            /\ Cardinality(SpecializationAsserts(name, d)) = 1
            /\ \A i \in SpecializationAsserts(name, d) :
                   ComparisonOf(i).b = IntArg(input_name_to_example_inputs[name][d + 1])

\* range specs of the canonical table for input name
RangeSpecs(name) ==
    {constraints[name][j] : j \in {k \in DOMAIN constraints[name] :
                                        constraints[name][k].kind = "range"}}

\* comparisons of kind op on a size-read of (name, dim) against a constant,
\* each followed by its conversion and an assert carrying a range message
RangeChecks(op, name, dim) ==
    {k \in DOMAIN graph : /\ graph[k].op = op
                          /\ ReadsSizeOf(graph[k].a, name, dim)
                          /\ graph[k].b.k = "int"
                          /\ k + 2 \in Asserts
                          /\ ComparisonOf(k + 2) = graph[k]
                          /\ graph[k + 2].msg.kind = "range"}

\* C4: for a RangeConstraintSpec of an input processed in the per-dimension
\* branch, the check size >= min_val is emitted iff min_val > 2 and the check
\* size <= max_val iff max_val is finite; the checks read the same size-read.
C4_RangeChecksEmitted ==
    \A b \in DOMAIN branch : branch[b].branch = "per_dim" =>
        \A c \in RangeSpecs(branch[b].name) :
            LET lows == RangeChecks("ge", branch[b].name, c.constraint_dim)
                ups == RangeChecks("le", branch[b].name, c.constraint_dim)
            IN /\ Cardinality(lows) = (IF c.min_val > 2 THEN 1 ELSE 0)
               /\ Cardinality(ups) = (IF c.max_val # Inf THEN 1 ELSE 0)
               /\ \A l \in lows : graph[l].b = IntArg(c.min_val)
               /\ \A u \in ups : graph[u].b = IntArg(c.max_val)
               /\ \A l \in lows : \A u \in ups : graph[l].a = graph[u].a

\* a completed pass that emitted both checks of one range constraint, and
\* one that emitted neither check of a range constraint with min_val = 2
C4_Witness ==
    /\ pc = "done"
    /\ \E b \in DOMAIN branch : branch[b].branch = "per_dim" /\
          \E c \in RangeSpecs(branch[b].name) :
             /\ c.min_val > 2 /\ c.max_val # Inf
             /\ RangeChecks("ge", branch[b].name, c.constraint_dim) # {}
             /\ RangeChecks("le", branch[b].name, c.constraint_dim) # {}
    /\ \E b \in DOMAIN branch : branch[b].branch = "per_dim" /\
          \E c \in RangeSpecs(branch[b].name) :
             /\ c.min_val = 2 /\ c.max_val = Inf
             /\ RangeChecks("ge", branch[b].name, c.constraint_dim) = {}
             /\ RangeChecks("le", branch[b].name, c.constraint_dim) = {}

\* order of the raw bound values, sympy.oo above every Integer
SymLeq(a, b) == b.k = "oo" \/ (a.k = "int" /\ b.k = "int" /\ a.v <= b.v)

\* raw lower / upper bounds declared for dimension dim in record rec
RawLowers(rec, dim) == {rec.range[j][2] : j \in {k \in DOMAIN rec.range : rec.range[k][1] = dim}}
RawUppers(rec, dim) == {rec.range[j][3] : j \in {k \in DOMAIN rec.range : rec.range[k][1] = dim}}

\* the integer (or Inf) a raw bound stands for
Denotes(n, raw) == (raw.k = "oo" /\ n = Inf) \/ (raw.k = "int" /\ n = raw.v)

\* C5: once the constraints are normalised, every (input, dim) with raw range
\* tuples has one RangeConstraintSpec whose min_val is the greatest raw lower
\* bound and whose max_val is the least raw upper bound, oo above all integers.
C5_MergedRange ==
    pc # "call" =>
        \A r \in DOMAIN input_shape_constraints :
            LET rec == input_shape_constraints[r]
            IN \A d \in {rec.range[j][1] : j \in DOMAIN rec.range} :
                 LET specs == {c \in RangeSpecs(rec.name) : c.constraint_dim = d}
                 IN /\ Cardinality(specs) = 1
                    /\ \A c \in specs :
                         /\ \E lo \in RawLowers(rec, d) :
                               /\ \A o \in RawLowers(rec, d) : SymLeq(o, lo)
                               /\ Denotes(c.min_val, lo)
                         /\ \E hi \in RawUppers(rec, d) :
                               /\ \A o \in RawUppers(rec, d) : SymLeq(hi, o)
                               /\ Denotes(c.max_val, hi)

\* (2, 8) and (5, 10) declared on dimension 0 and merged to (5, 8)
C5_Witness ==
    /\ pc = "done"
    /\ \E r \in DOMAIN input_shape_constraints :
          LET rec == input_shape_constraints[r]
          IN /\ RawLowers(rec, 0) = {SymInteger(2), SymInteger(5)}
             /\ RawUppers(rec, 0) = {SymInteger(8), SymInteger(10)}
             /\ RangeConstraintSpec(0, 5, 8) \in RangeSpecs(rec.name)

\* some (input, dim) whose raw bounds are all integers or oo has a lower bound
\* above one of its upper bounds: the merged range has min_val > max_val
InvertedMerge ==
    \E r \in DOMAIN input_shape_constraints :
        LET rec == input_shape_constraints[r]
        IN \E d \in {rec.range[j][1] : j \in DOMAIN rec.range} :
             /\ \A v \in RawLowers(rec, d) \cup RawUppers(rec, d) : v.k \in {"int", "oo"}
             /\ \E lo \in RawLowers(rec, d), hi \in RawUppers(rec, d) : ~SymLeq(lo, hi)

\* C6: when a merged range has min_val > max_val the pass never leaves call():
\* it aborts there, with no input node visited and nothing emitted.
C6_InvertedRangeAborts ==
    InvertedMerge =>
        /\ pc = "call"
        /\ graph = <<>>
        /\ input_name_to_args = <<>>
        /\ Ended => err \in {"AssertionError", "RuntimeError"}

\* the merge assertion has failed
C6_Witness ==
    InvertedMerge /\ err = "AssertionError" /\ graph = <<>> /\ input_name_to_args = <<>>

\* C7: whenever the pass aborts on a bound that is neither an integer nor oo
\* (from a range constraint or from the inline-constraint table), no operation
\* has been emitted into the rewritten graph.
C7_NonIntegerAbortsBeforeEmission ==
    err = "RuntimeError" => \A i \in DOMAIN graph : graph[i].op = "placeholder"

\* dimensions of a tensor descriptor whose symbol has an inline constraint
InlineDims(val) ==
    {k \in 0..(Len(val.shape) - 1) : /\ val.shape[k + 1].kind = "symint"
                                     /\ val.shape[k + 1].expr \in DOMAIN inline_constraints}

\* C8: processing an operation whose result is a tensor with an inline-
\* constrained symbol [lower, upper] as dimension k (its only constrained
\* dimension, the bounds integers or oo) completes without error and
\* emits one size-read of dimension k of the result node, followed by the
\* checks >= lower and <= upper (for finite bounds) on that size-read, each
\* with the message "<result>.shape[k] is outside of inline constraint ...".
C8_InlineChainEmitted ==
    \A i \in DOMAIN rets :
        LET val == call_functions[i].val
        IN (/\ val.kind = "tensor"
            /\ Cardinality(InlineDims(val)) = 1
            /\ \A k \in InlineDims(val) :
                  /\ ~_convert_to_int_raises(inline_constraints[val.shape[k + 1].expr].lower)
                  /\ ~_convert_to_int_raises(inline_constraints[val.shape[k + 1].expr].upper))
           => \A k \in InlineDims(val) :
                LET lower == _convert_to_int(inline_constraints[val.shape[k + 1].expr].lower)
                    upper == _convert_to_int(inline_constraints[val.shape[k + 1].expr].upper)
                    reads == {n \in DOMAIN graph : graph[n] = SymSizeNode(rets[i], k)}
                    checked(n, op, bound) ==
                        \E m \in DOMAIN graph :
                            /\ graph[m] = Node(op, "", NodeArg(n), IntArg(bound), NoMsg)
                            /\ m + 2 \in Asserts
                            /\ ComparisonOf(m + 2) = graph[m]
                            /\ graph[m + 2].msg = InlineMsg(rets[i], <<k>>, lower, upper)
                IN /\ ~(Aborted /\ pc = "operators" /\ i = Len(rets))
                   /\ Cardinality(reads) = 1
                   /\ \A n \in reads : /\ lower # Inf => checked(n, "ge", lower)
                                       /\ upper # Inf => checked(n, "le", upper)

\* position of an input in the declaration order
DeclPos(name) == CHOOSE p \in DOMAIN placeholders : placeholders[p] = name

\* the input whose size the comparison of assert i reads
InputOf(i) == graph[graph[ComparisonOf(i).a.v].a.v].target

\* 1: specialization or range assert of an input; 2: cross-input equality
\* assert; 3: assert synthesized for an operation
Tier(i) ==
    IF graph[i].msg.kind \in {"specialized", "range"} THEN 1
    ELSE IF graph[i].msg.kind = "equality" THEN 2
    ELSE 3

\* C9: in the emitted sequence every input-level assert precedes every
\* equality assert, which precedes every assert synthesized for an operation,
\* and the input-level asserts follow the declaration order of their inputs.
C9_AssertionOrder ==
    \A i \in Asserts : \A j \in Asserts :
        i < j => /\ Tier(i) <= Tier(j)
                 /\ (Tier(i) = 1 /\ Tier(j) = 1) => DeclPos(InputOf(i)) <= DeclPos(InputOf(j))

\* a completed pass with input-level asserts of two inputs and an equality assert
C9_Witness ==
    /\ pc = "done"
    /\ \E i \in Asserts : \E j \in Asserts : \E e \in Asserts :
          /\ Tier(i) = 1 /\ Tier(j) = 1 /\ Tier(e) = 2
          /\ InputOf(i) # InputOf(j)
          /\ i < j /\ j < e

\* a declared input has an equality constraint whose other_name is not a
\* visited input
DanglingEquality ==
    \E r \in DOMAIN input_shape_constraints :
    \E j \in DOMAIN input_shape_constraints[r].equality :
        /\ input_shape_constraints[r].name \in DeclaredInputs
        /\ input_shape_constraints[r].equality[j][2] \notin DeclaredInputs

\* C10: with such an equality constraint declared, a pass that got past the
\* normalisation never completes normally: it ends in a lookup failure.
C10_DanglingEqualityFails ==
    (DanglingEquality /\ pc # "call" /\ Ended) => (pc # "done" /\ err = "KeyError")

\* the descriptor names no symbol of the inline-constraint table
NoInlineSymbol(val) ==
    \/ val.kind \in {"none", "int"}
    \/ val.kind = "symint" /\ val.expr \notin DOMAIN inline_constraints
    \/ val.kind = "tensor" /\ InlineDims(val) = {}
    \/ val.kind = "tuple" /\ \A j \in DOMAIN val.elems : InlineDims(val.elems[j]) = {}

\* call_operator has returned for the i-th operation
Returned(i) == i \in DOMAIN rets /\ ~(Aborted /\ i = Len(rets))

\* nodes emitted after the result node of the i-th operation and before the
\* result node of the next one
EmittedFor(i) ==
    {n \in DOMAIN graph : n > rets[i] /\ (i < Len(rets) => n < rets[i + 1])}

\* C11: call_operator returns the node it created for the original operation,
\* never an inserted node; and for an operation without descriptor, or whose
\* descriptor names no symbol of the inline-constraint table, it emits nothing
\* after that node (no size-read, comparison, conversion or assert).
C11_ReturnsOriginalNode ==
    \A i \in DOMAIN rets : Returned(i) =>
        /\ graph[rets[i]] = Node("call", call_functions[i].target, NoArg, NoArg, NoMsg)
        /\ NoInlineSymbol(call_functions[i].val) => EmittedFor(i) = {}

\* a completed pass over two operations, the first with a result of rank
\* MaxRank whose dimensions are symbols outside the inline-constraint table
C11_Witness ==
    /\ pc = "done"
    /\ Len(rets) = 2
    /\ inline_constraints # <<>>
    /\ call_functions[1].val.kind = "tensor"
    /\ \A k \in DOMAIN call_functions[1].val.shape :
          call_functions[1].val.shape[k].kind = "symint"
    /\ NoInlineSymbol(call_functions[1].val)
    /\ rets[2] = rets[1] + 1
    /\ graph[rets[1]].target = "op1"

\* integer bounds of the inline constraint on dimension k of descriptor val
InlineLower(val, k) == _convert_to_int(inline_constraints[val.shape[k + 1].expr].lower)
InlineUpper(val, k) == _convert_to_int(inline_constraints[val.shape[k + 1].expr].upper)

\* comparison m (op against the constant bound) on node n, followed by its
\* conversion and an assert carrying message msg
CheckedAt(m, n, op, bound, msg) ==
    /\ graph[m] = Node(op, "", NodeArg(n), IntArg(bound), NoMsg)
    /\ m + 2 \in Asserts
    /\ ComparisonOf(m + 2) = graph[m]
    /\ graph[m + 2].msg = msg

\* C12: for an operation whose result is a tensor with two or more inline-
\* constrained dimensions of different bounds (all integers or oo), call_operator
\* completes and, for every such dimension k, emits a size-read of dimension k
\* of the result on which exactly the checks for k's own bounds are made: >= its
\* lower bound and <= its upper bound when finite, no comparison against any
\* other constant, each with the message naming k and k's bounds.
C12_OwnBoundsPerDimension ==
    \A i \in DOMAIN rets :
        LET val == call_functions[i].val
        IN (/\ val.kind = "tensor"
            /\ Cardinality(InlineDims(val)) >= 2
            /\ \A k \in InlineDims(val) :
                  /\ ~_convert_to_int_raises(inline_constraints[val.shape[k + 1].expr].lower)
                  /\ ~_convert_to_int_raises(inline_constraints[val.shape[k + 1].expr].upper)
            /\ \E k \in InlineDims(val), l \in InlineDims(val) :
                  inline_constraints[val.shape[k + 1].expr]
                      # inline_constraints[val.shape[l + 1].expr])
           => /\ Returned(i)
              /\ \A k \in InlineDims(val) :
                    LET lower == InlineLower(val, k)
                        upper == InlineUpper(val, k)
                        msg == InlineMsg(rets[i], <<k>>, lower, upper)
                    IN \E n \in EmittedFor(i) :
                         /\ graph[n] = SymSizeNode(rets[i], k)
                         /\ lower # Inf => \E m \in EmittedFor(i) : CheckedAt(m, n, "ge", lower, msg)
                         /\ upper # Inf => \E m \in EmittedFor(i) : CheckedAt(m, n, "le", upper, msg)
                         /\ \A m \in EmittedFor(i) :
                               (graph[m].op \in {"ge", "le"} /\ graph[m].a = NodeArg(n)) =>
                                   \/ CheckedAt(m, n, "ge", lower, msg)
                                   \/ CheckedAt(m, n, "le", upper, msg)

\* C13: for a multi-output operation whose j-th element is a tensor with an
\* inline-constrained symbol (bounds integers or oo) as dimension k, once
\* call_operator has returned the graph holds, after the result node, the
\* extraction of element j, a size-read of dimension k of that element, and the
\* checks >= lower and <= upper (for finite bounds) on the size-read.
C13_NestedSymbolsChecked ==
    \A i \in DOMAIN rets :
        LET val == call_functions[i].val
        IN (val.kind = "tuple" /\ Returned(i)) =>
             \A j \in DOMAIN val.elems : \A k \in InlineDims(val.elems[j]) :
                 LET c == inline_constraints[val.elems[j].shape[k + 1].expr]
                 IN (~_convert_to_int_raises(c.lower) /\ ~_convert_to_int_raises(c.upper)) =>
                      \E e \in EmittedFor(i), n \in EmittedFor(i) :
                          /\ graph[e] = Node("getitem", "", NodeArg(rets[i]), IntArg(j - 1), NoMsg)
                          /\ graph[n] = SymSizeNode(e, k)
                          /\ _convert_to_int(c.lower) # Inf =>
                                \E m \in EmittedFor(i) :
                                    /\ graph[m] = Node("ge", "", NodeArg(n),
                                                       IntArg(_convert_to_int(c.lower)), NoMsg)
                                    /\ m + 2 \in Asserts
                          /\ _convert_to_int(c.upper) # Inf =>
                                \E m \in EmittedFor(i) :
                                    /\ graph[m] = Node("le", "", NodeArg(n),
                                                       IntArg(_convert_to_int(c.upper)), NoMsg)
                                    /\ m + 2 \in Asserts

\* the symbol a descriptor is checked for, if it is a scalar symbol or a
\* tensor with a single inline-constrained dimension
CheckedSymbols(val) ==
    IF val.kind = "symint" THEN {val.expr} \cap DOMAIN inline_constraints
    ELSE IF val.kind = "tensor" /\ Cardinality(InlineDims(val)) = 1
    THEN {val.shape[k + 1].expr : k \in InlineDims(val)}
    ELSE {}

\* nodes of operation i the inline constraint is checked on: the result node
\* of a scalar, the size-reads of a tensor
CheckedNodes(i) ==
    IF call_functions[i].val.kind = "symint" THEN {rets[i]}
    ELSE {n \in EmittedFor(i) : graph[n].op = "sym_size" /\ graph[n].a = NodeArg(rets[i])}

\* C14: for an operation whose descriptor carries an inline-constrained symbol
\* with bounds [lower, upper] (integers or oo), call_operator returns and has
\* emitted the check >= lower for every finite lower (0 and negative integers
\* included) and the check <= upper for every finite upper.
C14_InlineBoundsAlwaysChecked ==
    \A i \in DOMAIN rets : \A sym \in CheckedSymbols(call_functions[i].val) :
        LET c == inline_constraints[sym]
        IN (~_convert_to_int_raises(c.lower) /\ ~_convert_to_int_raises(c.upper)) =>
             /\ Returned(i)
             /\ _convert_to_int(c.lower) # Inf =>
                   \E n \in CheckedNodes(i), m \in EmittedFor(i) :
                       /\ graph[m] = Node("ge", "", NodeArg(n), IntArg(_convert_to_int(c.lower)),
                                          NoMsg)
                       /\ m + 2 \in Asserts /\ ComparisonOf(m + 2) = graph[m]
             /\ _convert_to_int(c.upper) # Inf =>
                   \E n \in CheckedNodes(i), m \in EmittedFor(i) :
                       /\ graph[m] = Node("le", "", NodeArg(n), IntArg(_convert_to_int(c.upper)),
                                          NoMsg)
                       /\ m + 2 \in Asserts /\ ComparisonOf(m + 2) = graph[m]

\* equality asserts of the rewritten graph
EqualityAssertNodes == {i \in Asserts : graph[i].msg.kind = "equality"}

\* (name, dim, other_name, other_dim) of the equality asserts, in emission order
EmittedEqualities ==
    [k \in 1..Cardinality(EqualityAssertNodes) |->
        LET i == CHOOSE n \in EqualityAssertNodes :
                     Cardinality({m \in EqualityAssertNodes : m <= n}) = k
        IN <<graph[i].msg.name, graph[i].msg.dim, graph[i].msg.other, graph[i].msg.odim>>]

\* (name, dim, other_name, other_dim) of the raw equality tuples, record by
\* record and, within a record, in list order
RECURSIVE DeclaredEqualities(_)
DeclaredEqualities(raw) ==
    IF raw = <<>> THEN <<>>
    ELSE [j \in DOMAIN Head(raw).equality |->
             <<Head(raw).name>> \o Head(raw).equality[j]]
         \o DeclaredEqualities(Tail(raw))

\* a can be obtained from b by deleting elements
RECURSIVE IsSubsequence(_, _)
IsSubsequence(a, b) ==
    IF a = <<>> THEN TRUE
    ELSE IF b = <<>> THEN FALSE
    ELSE IF Head(a) = Head(b) THEN IsSubsequence(Tail(a), Tail(b))
    ELSE IsSubsequence(a, Tail(b))

\* C15: the equality asserts appear in the rewritten graph in the order in
\* which their equality constraints were declared in the raw constraint
\* records (record by record and, within a record, tuple by tuple): the
\* emitted sequence is the declared sequence, less the equalities not emitted.
C15_EqualitiesInDeclaredOrder ==
    IsSubsequence(EmittedEqualities, DeclaredEqualities(input_shape_constraints))

\* rank of raw equality tuple j of one record in the order the pass keeps: by
\* the first occurrence of its dimension in the list, then by its own position
GroupedRank(eqs, j) ==
    LET first(h) == CHOOSE a \in DOMAIN eqs :
                        /\ eqs[a][1] = eqs[h][1]
                        /\ \A b \in DOMAIN eqs : eqs[b][1] = eqs[h][1] => a <= b
    IN 1 + Cardinality({h \in DOMAIN eqs : \/ first(h) < first(j)
                                           \/ first(h) = first(j) /\ h < j})

GroupedByDim(name, eqs) ==
    [k \in DOMAIN eqs |->
        <<name>> \o eqs[CHOOSE j \in DOMAIN eqs : GroupedRank(eqs, j) = k]]

\* the equalities of the inputs with an example shape, input by input in the
\* order given by names, each input's equalities grouped by dimension
RECURSIVE GroupedEqualities(_)
GroupedEqualities(names) ==
    IF names = <<>> THEN <<>>
    ELSE LET recs == {r \in DOMAIN input_shape_constraints :
                         input_shape_constraints[r].name = Head(names)}
         IN (IF Head(names) \in DOMAIN input_name_to_example_inputs /\ recs # {}
             THEN GroupedByDim(Head(names),
                               input_shape_constraints[CHOOSE r \in recs : TRUE].equality)
             ELSE <<>>)
            \o GroupedEqualities(Tail(names))

\* C15 (amended): the equality asserts are emitted input by input in the order
\* in which the graph declares the inputs and, for one input, grouped by
\* dimension in the order in which the dimensions first occur in its raw
\* equality list (tuples of one dimension in list order). Every emitted
\* sequence keeps this order, and input processing that took the per-dimension
\* branch for every input emits exactly this sequence.
C15_EqualitiesGroupedByInputAndDim ==
    /\ IsSubsequence(EmittedEqualities, GroupedEqualities(placeholders))
    /\ (/\ pc \in {"operators", "done"}
        /\ \A b \in DOMAIN branch : branch[b].branch = "per_dim")
       => EmittedEqualities = GroupedEqualities(placeholders)

\* a completed pass for equalities declared on dimensions 1, 0, 1 of x:
\* both asserts of dimension 1 come before the assert of dimension 0
C15_Witness ==
    /\ pc = "done"
    /\ \E r \in DOMAIN input_shape_constraints :
          /\ input_shape_constraints[r].name = "x"
          /\ input_shape_constraints[r].equality =
                << <<1, "y", 0>>, <<0, "y", 0>>, <<1, "y", 1>> >>
    /\ EmittedEqualities = << <<"x", 1, "y", 0>>, <<"x", 1, "y", 1>>, <<"x", 0, "y", 0>> >>

\* positions of input_name_to_args whose input has no canonical constraints
UnconstrainedArgs ==
    {p \in DOMAIN input_name_to_args : input_name_to_args[p].name \notin DOMAIN constraints}

\* size-reads of the placeholder node of the input at position p
SizeReadsOfArg(p) ==
    {n \in DOMAIN graph : /\ graph[n].op = "sym_size"
                          /\ graph[n].a = NodeArg(input_name_to_args[p].arg)}

\* C16: after input processing, if u is the first recorded input without
\* canonical constraints, u has its specialization assert on every dimension,
\* no operation reads the size of any input recorded after u (so no range,
\* specialization or equality check of a later input), and no equality assert
\* has been emitted at all: input processing stopped at u.
C16_StopsAtFirstUnconstrained ==
    (pc \in {"operators", "done"} /\ UnconstrainedArgs # {}) =>
        LET u == CHOOSE p \in UnconstrainedArgs : \A q \in UnconstrainedArgs : p <= q
            name == input_name_to_args[u].name
        IN /\ \A d \in 0..(Rank(name) - 1) : Cardinality(SpecializationAsserts(name, d)) = 1
           /\ branch[Len(branch)] = [name |-> name, branch |-> "all_dims"]
           /\ \A p \in DOMAIN input_name_to_args : p > u => SizeReadsOfArg(p) = {}
           /\ EqualityAssertNodes = {}

\* a completed pass over inputs x, y where x is unconstrained and y, declared
\* after it, has a range and an equality constraint: nothing was emitted for y
C16_Witness ==
    /\ pc = "done"
    /\ Len(input_name_to_args) = 2
    /\ UnconstrainedArgs = {1}
    /\ \E c \in Range(constraints[input_name_to_args[2].name]) : c.kind = "range"
    /\ \E c \in Range(constraints[input_name_to_args[2].name]) : c.kind = "equality"
    /\ SizeReadsOfArg(1) # {}
    /\ SizeReadsOfArg(2) = {}

Comparisons == {"ge", "le", "eq"}

\* operand a is the result of a size-read emitted before node k
SizeReadBefore(a, k) == a.k = "node" /\ a.v < k /\ graph[a.v].op = "sym_size"

\* C17: in the emitted sequence every assert takes the scalar_tensor
\* conversion emitted immediately before it, which takes the comparison
\* emitted immediately before that, and an operand of the comparison is a
\* size-read emitted earlier; every comparison is immediately followed by its
\* conversion and every conversion by its assert; every size-read is of a
\* (node, dimension) pair.
C17_AssertChains ==
    \A k \in DOMAIN graph :
        /\ graph[k].op = "assert" =>
              /\ k > 3
              /\ graph[k].a = NodeArg(k - 1)
              /\ graph[k].msg.kind # "none"
              /\ graph[k - 1].op = "scalar_tensor"
              /\ graph[k - 1].a = NodeArg(k - 2)
              /\ graph[k - 2].op \in Comparisons
              /\ \/ SizeReadBefore(graph[k - 2].a, k - 2)
                 \/ SizeReadBefore(graph[k - 2].b, k - 2)
        /\ graph[k].op \in Comparisons =>
              /\ k + 2 <= Len(graph)
              /\ graph[k + 1].op = "scalar_tensor"
              /\ graph[k + 2].op = "assert"
        /\ graph[k].op = "scalar_tensor" =>
              /\ k + 1 <= Len(graph)
              /\ graph[k + 1].op = "assert"
              /\ k > 1 /\ graph[k - 1].op \in Comparisons
        /\ graph[k].op = "sym_size" =>
              /\ graph[k].a.k = "node" /\ graph[k].a.v < k
              /\ graph[k].b.k = "int"

\* a completed pass that emitted a specialization, a lower-bound, an
\* upper-bound and an equality assert
C17_Witness ==
    /\ pc = "done"
    /\ \E i \in Asserts : graph[i].msg.kind = "specialized"
    /\ \E i \in Asserts : graph[i].msg.kind = "range" /\ ComparisonOf(i).op = "ge"
    /\ \E i \in Asserts : graph[i].msg.kind = "range" /\ ComparisonOf(i).op = "le"
    /\ \E i \in Asserts : graph[i].msg.kind = "equality"

\* the symbol an operation-level assert checks: the one found in the
\* descriptor of its operation at the place its message names
SymbolCheckedBy(n) ==
    LET i == CHOOSE j \in DOMAIN rets : rets[j] = graph[n].msg.node
        val == call_functions[i].val
    IN IF graph[n].msg.dim = -1 THEN val.expr ELSE val.shape[graph[n].msg.dim + 1].expr

Count(seq, Test(_)) == Cardinality({j \in DOMAIN seq : Test(seq[j])})

\* C19: once the constraints are normalised, a raw record with empty range
\* and equality lists has no entry in the canonical table and its input, if
\* processed, takes the all-dimensions branch; any other record has an entry
\* holding exactly one RangeConstraintSpec for each dimension with a raw range
\* tuple, none for any other dimension, and as many copies of each
\* EqualityConstraintSpec as the raw equality list has of its tuple, and
\* nothing else.
C19_CanonicalTableShape ==
    pc # "call" =>
        \A r \in DOMAIN input_shape_constraints :
            LET rec == input_shape_constraints[r]
                name == rec.name
            IN IF rec.range = <<>> /\ rec.equality = <<>>
               THEN /\ name \notin DOMAIN constraints
                    /\ \A b \in DOMAIN branch :
                          branch[b].name = name => branch[b].branch = "all_dims"
               ELSE /\ name \in DOMAIN constraints
                    /\ \A d \in 0..MaxRank :
                          Count(constraints[name],
                                LAMBDA c : c.kind = "range" /\ c.constraint_dim = d)
                              = (IF \E j \in DOMAIN rec.range : rec.range[j][1] = d THEN 1 ELSE 0)
                    /\ \A j \in DOMAIN rec.equality :
                          LET t == rec.equality[j]
                          IN Count(constraints[name],
                                   LAMBDA c : c = EqualityConstraintSpec(t[1], t[2], t[3]))
                                 = Count(rec.equality, LAMBDA e : e = t)
                    /\ Count(constraints[name], LAMBDA c : c.kind = "equality")
                          = Len(rec.equality)
                    /\ Count(constraints[name], LAMBDA c : c.kind \in {"range", "equality"})
                          = Len(constraints[name])

\* a completed pass where x has a range tuple on one dimension and an
\* equality on the other, and y, declared with empty lists, has no entry and
\* was specialised on all dimensions
C19_Witness ==
    /\ pc = "done"
    /\ placeholders = <<"y", "x">>
    /\ \E r \in DOMAIN input_shape_constraints :
          /\ input_shape_constraints[r] = ShapeRecord("y", <<>>, <<>>)
    /\ \E r \in DOMAIN input_shape_constraints :
          /\ input_shape_constraints[r].name = "x"
          /\ Len(input_shape_constraints[r].range) = 1
          /\ Len(input_shape_constraints[r].equality) = 1
    /\ "y" \notin DOMAIN constraints
    /\ Len(constraints["x"]) = 2
    /\ branch = << [name |-> "y", branch |-> "all_dims"] >>

\* input nodes visited so far whose name has no example input
InputsWithoutExample ==
    {graph[n].target : n \in {m \in DOMAIN graph : graph[m].op = "placeholder"}}
        \ DOMAIN input_name_to_example_inputs

\* a recorded input with canonical constraints has an equality whose
\* other_name is name
NamedAsOther(name) ==
    \E p \in DOMAIN input_name_to_args :
        /\ input_name_to_args[p].name \in DOMAIN constraints
        /\ \E c \in Range(constraints[input_name_to_args[p].name]) :
              c.kind = "equality" /\ c.other_name = name

\* C20: an input node whose name has no example input is never recorded in
\* input_name_to_args; no size-read reads it and no assert message names it;
\* and when an equality of a recorded input names it as other_name, input
\* processing never completes with the equality loop run: either the loop was
\* skipped by the early return or the lookup failed with KeyError.
C20_InputWithoutExampleIgnored ==
    \A name \in InputsWithoutExample :
        /\ name \notin ArgNames(input_name_to_args)
        /\ \A n \in DOMAIN graph :
              graph[n].op = "sym_size" =>
                  ~(graph[graph[n].a.v].op = "placeholder" /\ graph[graph[n].a.v].target = name)
        /\ \A n \in Asserts :
              /\ graph[n].msg.name # name
              /\ graph[n].msg.kind = "equality" => graph[n].msg.other # name
        /\ (NamedAsOther(name) /\ pc \in {"operators", "done"}) =>
              \E b \in DOMAIN branch : branch[b].branch = "all_dims"
        /\ (NamedAsOther(name) /\ pc = "placeholders" /\ node_i > Len(placeholders)
               /\ \A p \in DOMAIN input_name_to_args :
                     input_name_to_args[p].name \in DOMAIN constraints) =>
              (Aborted => err = "KeyError")

\* input processing failed on the lookup of y, declared in the graph without
\* an example input and named by an equality of x; nothing reads y
C20_Witness ==
    /\ placeholders = <<"x", "y">>
    /\ InputsWithoutExample = {"y"}
    /\ NamedAsOther("y")
    /\ pc = "placeholders"
    /\ err = "KeyError"
    /\ ArgNames(input_name_to_args) = {"x"}
    /\ \E n \in DOMAIN graph : graph[n].op = "sym_size"

====
